---- MODULE Spec2Model ----
(***************************************************************************)
(* Model of evanwsmith/Probability-Fun: brownian.py (BrownianVariable,     *)
(* BrownianVariableHistory) and streaminginterpolators.py (Linear and      *)
(* NearestNeighbor streaming interpolators).                               *)
(*                                                                         *)
(* Numbers.  Python floats are modelled as exact rationals <<n, d>> with   *)
(* d > 0 in lowest terms.  A standard deviation s is kept as the pair      *)
(* [sgn |-> sign(s), sq |-> s^2]: x**0.5 builds it from x, s**2 and        *)
(* s**(-2) read it back, so no irrational value is ever needed.            *)
(* A tree (bintrees RBTree / AVLTree) is a function from its keys to its   *)
(* values; None is the empty tuple <<>>, a data point is <<t, val>>.       *)
(***************************************************************************)
EXTENDS Integers, Sequences, FiniteSets, TLC

VARIABLES hist, procs, batch, lin, nn, last

vars == <<hist, procs, batch, lin, nn, last>>

\* ---------------------------------------------------------------- bounds
MaxT == 3
MaxX == 3
MaxProcs == 2
MaxBatch == 2

\* observation and query times, unequally spaced so that a bridge can have
\* sides of different length; x coordinates of the interpolators
Times == {0} \cup (2..MaxT)
Xs == 0..MaxX
\* sample inputs: observed / drawn values, diffusion coefficients, drifts
Vals == {0, 1}
Sigmas == {-1, 0, 2}
Drifts == {0, 1}
\* the smaller input sets of the scenario with several processes
SharedTimes == {0, 2}
SharedSigmas == {2}
SharedDrifts == {0}

None == <<>>

\* ------------------------------------------------------------- rationals
Abs(x) == IF x < 0 THEN -x ELSE x

Sign(x) == IF x < 0 THEN -1 ELSE IF x = 0 THEN 0 ELSE 1

RECURSIVE Gcd(_, _)
Gcd(a, b) == IF b = 0 THEN a ELSE Gcd(b, a % b)

Rat(n, d) ==
    LET g == Gcd(Abs(n), Abs(d))
        s == IF d < 0 THEN -1 ELSE 1
    IN  <<(s * n) \div g, (s * d) \div g>>

FromInt(n) == <<n, 1>>

RAdd(a, b) == Rat(a[1] * b[2] + b[1] * a[2], a[2] * b[2])

RMul(a, b) == Rat(a[1] * b[1], a[2] * b[2])

RDiv(a, b) == Rat(a[1] * b[2], a[2] * b[1])

RIsZero(a) == a[1] = 0

\* x ** 0.5 for a rational x >= 0
Sqrt(x) == [sgn |-> Sign(x[1]), sq |-> x]

\* s * k for a standard deviation s and a number k
SdTimes(s, k) == [sgn |-> s.sgn * Sign(k), sq |-> RMul(s.sq, FromInt(k * k))]

\* s ** 2
Pow2(s) == s.sq

\* s ** (-2); Python raises ZeroDivisionError on 0.0 ** (-2)
PowNeg2Fails(s) == RIsZero(s.sq)

PowNeg2(s) == RDiv(FromInt(1), s.sq)

SdZero == [sgn |-> 0, sq |-> FromInt(0)]

\* ------------------------------------------------- bintrees ordered tree
EmptyTree == << >>

is_empty(tree) == DOMAIN tree = {}

insert(tree, key, val) ==
    [k \in (DOMAIN tree) \cup {key} |-> IF k = key THEN val ELSE tree[k]]

min_key(tree) == CHOOSE k \in DOMAIN tree : \A j \in DOMAIN tree : k <= j

max_key(tree) == CHOOSE k \in DOMAIN tree : \A j \in DOMAIN tree : k >= j

floor_item(tree, key) ==
    LET below == {k \in DOMAIN tree : k <= key}
        f == CHOOSE k \in below : \A j \in below : j <= k
    IN  <<f, tree[f]>>

ceiling_item(tree, key) ==
    LET above == {k \in DOMAIN tree : k >= key}
        c == CHOOSE k \in above : \A j \in above : j >= k
    IN  <<c, tree[c]>>

\* ------------------------------------------------ BrownianVariableHistory
insertData(h, t, val) == insert(h, t, val)

\* mutant: a stored time equal to t is not taken as the left point
getMartingaleRelevantPoints_strict(h, t) ==
    IF is_empty(h) THEN <<None, None>>
    ELSE LET leftPoint == IF min_key(h) < t THEN floor_item(h, t - 1) ELSE None
             rightPoint == IF max_key(h) >= t THEN ceiling_item(h, t) ELSE None
         IN  <<leftPoint, rightPoint>>

getMartingaleRelevantPoints(h, t) ==
    IF is_empty(h) THEN <<None, None>>
    ELSE LET leftPoint == IF min_key(h) <= t THEN floor_item(h, t) ELSE None
             rightPoint == IF max_key(h) >= t THEN ceiling_item(h, t) ELSE None
         IN  <<leftPoint, rightPoint>>

\* ------------------------------------------------------ BrownianVariable
getDistribution(t, baseT, baseVal, sigma, drift) ==
    LET mean == RAdd(FromInt((t - baseT) * drift), baseVal)
        standardDev == SdTimes(Sqrt(FromInt(Abs(t - baseT))), sigma)
    IN  <<mean, standardDev>>

\* mutant: each mean is weighted by the other side's precision
getSandwichDistribution_swapped(t, baseTLeft, baseValLeft, baseTRight, baseValRight, sigma, drift) ==
    LET l == getDistribution(t, baseTLeft, baseValLeft, sigma, drift)
        r == getDistribution(t, baseTRight, baseValRight, sigma, drift)
    IN  IF PowNeg2Fails(l[2]) \/ PowNeg2Fails(r[2])
        THEN [kind |-> "error", err |-> "ZeroDivisionError"]
        ELSE [kind |-> "distr",
              mean |-> RDiv(RAdd(RMul(PowNeg2(r[2]), l[1]), RMul(PowNeg2(l[2]), r[1])),
                            RAdd(PowNeg2(l[2]), PowNeg2(r[2]))),
              sd |-> Sqrt(RDiv(RMul(Pow2(l[2]), Pow2(r[2])),
                               RAdd(Pow2(l[2]), Pow2(r[2]))))]

getSandwichDistribution(t, baseTLeft, baseValLeft, baseTRight, baseValRight, sigma, drift) ==
    LET l == getDistribution(t, baseTLeft, baseValLeft, sigma, drift)
        r == getDistribution(t, baseTRight, baseValRight, sigma, drift)
        meanLeft == l[1]
        standardDevLeft == l[2]
        meanRight == r[1]
        standardDevRight == r[2]
    IN  IF PowNeg2Fails(standardDevLeft) \/ PowNeg2Fails(standardDevRight)
        THEN [kind |-> "error", err |-> "ZeroDivisionError"]
        ELSE [kind |-> "distr",
              mean |-> RDiv(RAdd(RMul(PowNeg2(standardDevLeft), meanLeft),
                                 RMul(PowNeg2(standardDevRight), meanRight)),
                            RAdd(PowNeg2(standardDevLeft), PowNeg2(standardDevRight))),
              sd |-> Sqrt(RDiv(RMul(Pow2(standardDevLeft), Pow2(standardDevRight)),
                               RAdd(Pow2(standardDevLeft), Pow2(standardDevRight))))]

Norm(loc, scale) == [kind |-> "distr", mean |-> loc, sd |-> scale]

\* mutant: the two `== t` early returns are missing
getPossibleValueDistr_noExact(h, sigma, drift, t) ==
    LET pts == getMartingaleRelevantPoints(h, t)
        leftDataPoint == pts[1]
        rightDataPoint == pts[2]
    IN  IF leftDataPoint = None /\ rightDataPoint = None
        THEN [kind |-> "error", err |-> "Brownian History Corruption Error"]
        ELSE IF rightDataPoint = None
        THEN LET d == getDistribution(t, leftDataPoint[1], leftDataPoint[2], sigma, drift)
             IN  Norm(d[1], d[2])
        ELSE IF leftDataPoint = None
        THEN LET d == getDistribution(t, rightDataPoint[1], rightDataPoint[2], sigma, drift)
             IN  Norm(d[1], d[2])
        ELSE getSandwichDistribution(t, leftDataPoint[1], leftDataPoint[2],
                                     rightDataPoint[1], rightDataPoint[2], sigma, drift)

getPossibleValueDistr(h, sigma, drift, t) ==
    LET pts == getMartingaleRelevantPoints(h, t)
        leftDataPoint == pts[1]
        rightDataPoint == pts[2]
    IN  IF leftDataPoint = None /\ rightDataPoint = None
        THEN [kind |-> "error", err |-> "Brownian History Corruption Error"]
        ELSE IF leftDataPoint # None /\ leftDataPoint[1] = t
        THEN Norm(leftDataPoint[2], SdZero)
        ELSE IF rightDataPoint # None /\ rightDataPoint[1] = t
        THEN Norm(rightDataPoint[2], SdZero)
        ELSE IF rightDataPoint = None
        THEN LET d == getDistribution(t, leftDataPoint[1], leftDataPoint[2], sigma, drift)
             IN  Norm(d[1], d[2])
        ELSE IF leftDataPoint = None
        THEN LET d == getDistribution(t, rightDataPoint[1], rightDataPoint[2], sigma, drift)
             IN  Norm(d[1], d[2])
        ELSE getSandwichDistribution(t, leftDataPoint[1], leftDataPoint[2],
                                     rightDataPoint[1], rightDataPoint[2], sigma, drift)

\* distr.rvs(): scipy returns loc when scale = 0, rejects scale < 0 with a
\* ValueError, and otherwise draws a sample (the value `draw` chosen by the
\* environment).
rvs(distr, draw) ==
    IF distr.sd.sgn = 0 THEN [kind |-> "val", val |-> distr.mean]
    ELSE IF distr.sd.sgn < 0 THEN [kind |-> "error", err |-> "ValueError"]
    ELSE [kind |-> "val", val |-> FromInt(draw)]

\* getValue on history tree h: the tree afterwards and the value returned
\* (or the exception that propagates)
getValue(h, sigma, drift, t, storeInHistory, draw) ==
    LET distr == getPossibleValueDistr(h, sigma, drift, t)
        val == IF distr.kind = "distr" THEN rvs(distr, draw) ELSE distr
    IN  [hist |-> IF val.kind = "val" /\ storeInHistory
                  THEN insertData(h, t, val.val) ELSE h,
         res |-> val,
         distr |-> distr]

\* sorted(enumerate(tList), key=lambda x: x[1]): indices by ascending time,
\* equal times in input order (the sort is stable)
RECURSIVE SortIdxs(_, _)
SortIdxs(tList, todo) ==
    IF todo = {} THEN << >>
    ELSE LET i == CHOOSE a \in todo : \A b \in todo :
                      \/ tList[a] < tList[b]
                      \/ tList[a] = tList[b] /\ a <= b
         IN  <<i>> \o SortIdxs(tList, todo \ {i})

\* mutant: the indices in input order
sortedIdxs_inputOrder(tList) == [k \in DOMAIN tList |-> k]

sortedIdxs(tList) == SortIdxs(tList, DOMAIN tList)

\* ------------------------------------------------------------ the objects
\* history object 0 is the one built when `def __init__(..., history=
\* BrownianVariableHistory())` is evaluated; object 1 is a history the
\* caller builds and may hand to constructors
DefaultHistory == 0
CallerHistory == 1
HistIds == {DefaultHistory, CallerHistory}

\* the history argument of the constructor: None when omitted
HistoryArgs == {None, <<CallerHistory>>}

\* BrownianVariable.__init__: the new object's fields and the histories
\* after the seed point is inserted.  _sigmastartTime and _startVal are
\* written and never read, so they are left out; `given` is no field of the
\* object, it records whether the caller passed a history.
\* mutant: the seed point is not inserted
BrownianVariableInit_noSeed(hs, sigma, startTime, startVal, drift, historyArg) ==
    LET history == IF historyArg = None THEN DefaultHistory ELSE historyArg[1]
    IN  [proc |-> [sigma |-> sigma, drift |-> drift, history |-> history,
                   given |-> historyArg # None],
         hist |-> hs]

BrownianVariableInit(hs, sigma, startTime, startVal, drift, historyArg) ==
    LET history == IF historyArg = None THEN DefaultHistory ELSE historyArg[1]
    IN  [proc |-> [sigma |-> sigma, drift |-> drift, history |-> history,
                   given |-> historyArg # None],
         hist |-> [hs EXCEPT ![history] =
                       insertData(hs[history], startTime, FromInt(startVal))]]

getHistory(p) == hist[procs[p].history]

ProcIds == 1..Len(procs)

BatchListsOver(times) == UNION {[1..n -> times] : n \in 0..MaxBatch}

\* ------------------------------------------------- streaming interpolators
\* mutant: each value is weighted by the distance to its own point
LinearGetInterpolatedVal_swapped(tree, x) ==
    IF is_empty(tree) THEN None
    ELSE LET hasLeft == min_key(tree) <= x
             hasRight == max_key(tree) >= x
             left == floor_item(tree, x)
             right == ceiling_item(tree, x)
         IN  IF hasLeft /\ left[1] = x THEN FromInt(left[2])
             ELSE IF hasRight /\ right[1] = x THEN FromInt(right[2])
             ELSE IF ~hasLeft THEN (IF hasRight THEN FromInt(right[2]) ELSE None)
             ELSE IF ~hasRight THEN FromInt(left[2])
             ELSE LET intervalLength == Abs(x - left[1]) + Abs(x - right[1])
                  IN  Rat(Abs(x - left[1]) * left[2] + Abs(x - right[1]) * right[2],
                          intervalLength)

LinearGetInterpolatedVal(tree, x) ==
    IF is_empty(tree) THEN None
    ELSE LET hasLeft == min_key(tree) <= x
             hasRight == max_key(tree) >= x
             left == floor_item(tree, x)
             right == ceiling_item(tree, x)
         IN  IF hasLeft /\ left[1] = x THEN FromInt(left[2])
             ELSE IF hasRight /\ right[1] = x THEN FromInt(right[2])
             ELSE IF ~hasLeft THEN (IF hasRight THEN FromInt(right[2]) ELSE None)
             ELSE IF ~hasRight THEN FromInt(left[2])
             ELSE LET intervalLength == Abs(x - left[1]) + Abs(x - right[1])
                  IN  Rat(Abs(x - right[1]) * left[2] + Abs(x - left[1]) * right[2],
                          intervalLength)

\* mutant: a tie goes to the left point
NearestNeighborGetInterpolatedVal_leftTie(tree, x) ==
    IF is_empty(tree) THEN None
    ELSE LET hasLeft == min_key(tree) <= x
             hasRight == max_key(tree) >= x
             left == floor_item(tree, x)
             right == ceiling_item(tree, x)
         IN  IF ~hasLeft THEN (IF hasRight THEN FromInt(right[2]) ELSE None)
             ELSE IF ~hasRight THEN FromInt(left[2])
             ELSE IF Abs(x - left[1]) <= Abs(x - right[1]) THEN FromInt(left[2])
             ELSE FromInt(right[2])

NearestNeighborGetInterpolatedVal(tree, x) ==
    IF is_empty(tree) THEN None
    ELSE LET hasLeft == min_key(tree) <= x
             hasRight == max_key(tree) >= x
             left == floor_item(tree, x)
             right == ceiling_item(tree, x)
         IN  IF ~hasLeft THEN (IF hasRight THEN FromInt(right[2]) ELSE None)
             ELSE IF ~hasRight THEN FromInt(left[2])
             ELSE IF Abs(x - left[1]) < Abs(x - right[1]) THEN FromInt(left[2])
             ELSE FromInt(right[2])

\* ---------------------------------------------------------------- actions
ConstructWith(n, historyArgs, sigmas, drifts, times) ==
    /\ batch = None
    /\ Len(procs) < n
    /\ \E sigma \in sigmas, startTime \in times, startVal \in Vals,
          drift \in drifts, historyArg \in historyArgs :
          LET r == BrownianVariableInit(hist, sigma, startTime, startVal, drift, historyArg)
          IN  /\ procs' = Append(procs, r.proc)
              /\ hist' = r.hist
              /\ last' = [op |-> "construct", proc |-> Len(procs) + 1]
    /\ UNCHANGED <<batch, lin, nn>>

\* the construction of a single process, history argument omitted
ConstructOne == ConstructWith(1, {None}, Sigmas, Drifts, Times)

\* any constructor call, while fewer than MaxProcs objects exist
Construct == ConstructWith(MaxProcs, HistoryArgs, SharedSigmas, SharedDrifts, SharedTimes)

\* p.getHistory().insertData(t, val)
InsertDataAt(times) ==
    /\ batch = None
    /\ \E p \in ProcIds, t \in times, val \in Vals :
          /\ hist' = [hist EXCEPT ![procs[p].history] =
                          insertData(getHistory(p), t, FromInt(val))]
          /\ last' = [op |-> "insertData", proc |-> p, t |-> t]
    /\ UNCHANGED <<procs, batch, lin, nn>>

InsertData == InsertDataAt(Times)

InsertDataShared == InsertDataAt(SharedTimes)

\* insertData on the history object the caller built itself
InsertDataCaller ==
    /\ batch = None
    /\ \E t \in Times, val \in Vals :
          /\ hist' = [hist EXCEPT ![CallerHistory] =
                          insertData(hist[CallerHistory], t, FromInt(val))]
          /\ last' = [op |-> "insertData", proc |-> 0, t |-> t]
    /\ UNCHANGED <<procs, batch, lin, nn>>

GetMartingaleRelevantPoints ==
    /\ batch = None
    /\ \E t \in Times :
          last' = [op |-> "getMartingaleRelevantPoints", t |-> t,
                   res |-> getMartingaleRelevantPoints(hist[CallerHistory], t)]
    /\ UNCHANGED <<hist, procs, batch, lin, nn>>

GetPossibleValueDistr ==
    /\ batch = None
    /\ \E p \in ProcIds, t \in Times :
          last' = [op |-> "getPossibleValueDistr", proc |-> p, t |-> t,
                   res |-> getPossibleValueDistr(getHistory(p), procs[p].sigma,
                                                 procs[p].drift, t)]
    /\ UNCHANGED <<hist, procs, batch, lin, nn>>

GetValueAt(times) ==
    /\ batch = None
    /\ \E p \in ProcIds, t \in times, storeInHistory \in BOOLEAN, draw \in Vals :
          LET r == getValue(getHistory(p), procs[p].sigma, procs[p].drift, t,
                            storeInHistory, draw)
          IN  /\ hist' = [hist EXCEPT ![procs[p].history] = r.hist]
              /\ last' = [op |-> "getValue", proc |-> p, t |-> t,
                          store |-> storeInHistory, res |-> r.res]
    /\ UNCHANGED <<procs, batch, lin, nn>>

GetValue == GetValueAt(Times)

GetValueShared == GetValueAt(SharedTimes)

\* getValues(tList) up to its loop: the sort and the retVals list.  The call
\* runs to completion: while a batch is in progress no other operation is
\* enabled.
GetValuesOf(lists) ==
    /\ batch = None
    /\ \E p \in ProcIds, tList \in lists :
          IF Len(tList) = 0
          THEN /\ batch' = None
               /\ last' = [op |-> "getValues", proc |-> p, tList |-> tList,
                           res |-> [kind |-> "list", retVals |-> << >>]]
          ELSE /\ batch' = [proc |-> p, tList |-> tList, order |-> sortedIdxs(tList),
                            k |-> 1, retVals |-> [i \in DOMAIN tList |-> None]]
               /\ last' = [op |-> "getValues.call", proc |-> p]
    /\ UNCHANGED <<hist, procs, lin, nn>>

GetValues == GetValuesOf(BatchListsOver(Times))

GetValuesShared == GetValuesOf(BatchListsOver(SharedTimes))

\* one iteration of `for i in sortedIdxs`; after the last one the call
\* returns retVals, and an exception of getValue ends the call at once
GetValuesIter ==
    /\ batch # None
    /\ \E draw \in Vals :
          LET p == batch.proc
              i == batch.order[batch.k]
              r == getValue(getHistory(p), procs[p].sigma, procs[p].drift,
                            batch.tList[i], TRUE, draw)
              retVals == [batch.retVals EXCEPT ![i] = r.res.val]
          IN  /\ hist' = [hist EXCEPT ![procs[p].history] = r.hist]
              /\ IF r.res.kind = "error"
                 THEN /\ batch' = None
                      /\ last' = [op |-> "getValues", proc |-> p,
                                  tList |-> batch.tList, res |-> r.res]
                 ELSE IF batch.k = Len(batch.order)
                 THEN /\ batch' = None
                      /\ last' = [op |-> "getValues", proc |-> p,
                                  tList |-> batch.tList,
                                  res |-> [kind |-> "list", retVals |-> retVals]]
                 ELSE /\ batch' = [batch EXCEPT !.k = batch.k + 1,
                                                !.retVals = retVals]
                      /\ last' = [op |-> "getValues.iter", proc |-> p]
    /\ UNCHANGED <<procs, lin, nn>>

LinearInsert ==
    /\ \E x \in Xs, val \in Vals :
          /\ lin' = insert(lin, x, val)
          /\ last' = [op |-> "linear.insert", x |-> x]
    /\ UNCHANGED <<hist, procs, batch, nn>>

LinearGet ==
    /\ \E x \in Xs :
          last' = [op |-> "linear.getInterpolatedVal", x |-> x,
                   res |-> LinearGetInterpolatedVal(lin, x)]
    /\ UNCHANGED <<hist, procs, batch, lin, nn>>

NearestNeighborInsert ==
    /\ \E x \in Xs, val \in Vals :
          /\ nn' = insert(nn, x, val)
          /\ last' = [op |-> "nearest.insert", x |-> x]
    /\ UNCHANGED <<hist, procs, batch, lin>>

NearestNeighborGet ==
    /\ \E x \in Xs :
          last' = [op |-> "nearest.getInterpolatedVal", x |-> x,
                   res |-> NearestNeighborGetInterpolatedVal(nn, x)]
    /\ UNCHANGED <<hist, procs, batch, lin, nn>>

Init ==
    /\ hist = [h \in HistIds |-> EmptyTree]
    /\ procs = << >>
    /\ batch = None
    /\ lin = EmptyTree
    /\ nn = EmptyTree
    /\ last = [op |-> "none"]

\* several processes, with and without a history argument
Next ==
    \/ Construct
    \/ InsertDataShared
    \/ GetValueShared
    \/ GetValuesShared
    \/ GetValuesIter

Spec == Init /\ [][Next]_vars

\* a history object on its own
NextHistory ==
    \/ InsertDataCaller
    \/ GetMartingaleRelevantPoints

SpecHistory == Init /\ [][NextHistory]_vars

\* one process, observations and distribution queries
NextDistr ==
    \/ ConstructOne
    \/ InsertData
    \/ GetPossibleValueDistr

SpecDistr == Init /\ [][NextDistr]_vars

\* one process that is only sampled
NextSampling ==
    \/ ConstructOne
    \/ GetPossibleValueDistr
    \/ GetValue
    \/ GetValues
    \/ GetValuesIter

SpecSampling == Init /\ [][NextSampling]_vars

\* one process, every operation
NextProcess ==
    \/ ConstructOne
    \/ InsertData
    \/ GetPossibleValueDistr
    \/ GetValue
    \/ GetValues
    \/ GetValuesIter

SpecProcess == Init /\ [][NextProcess]_vars

\* the linear interpolator
NextLinear ==
    \/ LinearInsert
    \/ LinearGet

SpecLinear == Init /\ [][NextLinear]_vars

\* the nearest-neighbour interpolator
NextNearest ==
    \/ NearestNeighborInsert
    \/ NearestNeighborGet

SpecNearest == Init /\ [][NextNearest]_vars

\* ------------------------------------------------------------- properties
SetMax(S) == CHOOSE k \in S : \A j \in S : j <= k

SetMin(S) == CHOOSE k \in S : \A j \in S : j >= k

\* C2: getMartingaleRelevantPoints(t) returns as left the observation with the
\* largest stored time <= t and as right the one with the smallest stored
\* time >= t, None where there is none (so (None, None) on an empty history),
\* and a stored time t gives (t, storedVal) on both sides.
C2_NeighborContract ==
    last.op = "getMartingaleRelevantPoints" =>
        LET h == hist[CallerHistory]
            t == last.t
            left == last.res[1]
            right == last.res[2]
            below == {k \in DOMAIN h : k <= t}
            above == {k \in DOMAIN h : k >= t}
        IN  /\ (below = {}) <=> (left = None)
            /\ (above = {}) <=> (right = None)
            /\ below # {} => left = <<SetMax(below), h[SetMax(below)]>>
            /\ above # {} => right = <<SetMin(above), h[SetMin(above)]>>
            /\ DOMAIN h = {} => last.res = <<None, None>>
            /\ t \in DOMAIN h => left = <<t, h[t]>> /\ right = <<t, h[t]>>

C2_Witness ==
    /\ last.op = "getMartingaleRelevantPoints"
    /\ last.res[1] # None
    /\ last.res[2] # None
    /\ last.res[1][1] < last.t
    /\ last.t < last.res[2][1]
    /\ Cardinality(DOMAIN hist[CallerHistory]) >= 2

\* C3: for sigma > 0 and t strictly between its nearest observations,
\* getPossibleValueDistr(t) is the precision-weighted fusion of the two
\* one-sided projections: mean (mean_L/var_L + mean_R/var_R) / (1/var_L +
\* 1/var_R) and variance 1 / (1/var_L + 1/var_R) = var_L*var_R / (var_L + var_R).
C3_BridgeFusion ==
    last.op = "getPossibleValueDistr" =>
        LET p == last.proc
            t == last.t
            h == getHistory(p)
            sigma == procs[p].sigma
            drift == procs[p].drift
            lower == {k \in DOMAIN h : k < t}
            upper == {k \in DOMAIN h : k > t}
        IN  (sigma > 0 /\ t \notin DOMAIN h /\ lower # {} /\ upper # {}) =>
                LET leftTime == SetMax(lower)
                    rightTime == SetMin(upper)
                    meanL == RAdd(h[leftTime], FromInt(drift * (t - leftTime)))
                    meanR == RAdd(h[rightTime], FromInt(drift * (t - rightTime)))
                    varL == FromInt(sigma * sigma * (t - leftTime))
                    varR == FromInt(sigma * sigma * (rightTime - t))
                    one == FromInt(1)
                IN  /\ last.res.kind = "distr"
                    /\ last.res.mean = RDiv(RAdd(RDiv(meanL, varL), RDiv(meanR, varR)),
                                            RAdd(RDiv(one, varL), RDiv(one, varR)))
                    /\ last.res.sd.sgn = 1
                    /\ last.res.sd.sq = RDiv(one, RAdd(RDiv(one, varL), RDiv(one, varR)))
                    /\ last.res.sd.sq = RDiv(RMul(varL, varR), RAdd(varL, varR))

C3_Witness ==
    /\ last.op = "getPossibleValueDistr"
    /\ procs[last.proc].sigma > 0
    /\ procs[last.proc].drift # 0
    /\ LET h == getHistory(last.proc)
           t == last.t
       IN  /\ t \notin DOMAIN h
           /\ \E a \in DOMAIN h, b \in DOMAIN h :
                 /\ a < t /\ t < b
                 /\ t - a # b - t
                 /\ \A k \in DOMAIN h : k <= a \/ k >= b
                 /\ h[a] # h[b]
    /\ last.res.kind = "distr"

\* C1: two processes constructed without a history argument share no
\* history: constructing the one, or a getValue / getValues / insertData on
\* it, leaves the observations of the other unchanged.
C1_DefaultHistoriesIsolated ==
    [][\A a \in ProcIds : \A b \in 1..Len(procs') :
          (a # b /\ ~procs'[a].given /\ ~procs'[b].given /\ last'.proc = b)
              => hist'[procs'[a].history] = hist[procs[a].history]]_vars

\* C8: a negative sigma is rejected by the constructor, so no process with
\* sigma < 0 exists and no seed point of such a process is in any history.
C8_NoNegativeSigma ==
    \A p \in ProcIds : procs[p].sigma >= 0

\* C9: for sigma >= 0 (sigma = 0 included) getPossibleValueDistr returns a
\* (mean, standard deviation) distribution at every query time and does not
\* fail.
C9_DistrTotal ==
    (last.op = "getPossibleValueDistr" /\ procs[last.proc].sigma >= 0)
        => last.res.kind = "distr"

\* C10: the history of every constructed process holds at least one
\* observation, getMartingaleRelevantPoints never returns (None, None) for it,
\* and no call ends in the 'Brownian History Corruption Error'.
C10_HistoryInvariant ==
    /\ \A p \in ProcIds :
          /\ DOMAIN getHistory(p) # {}
          /\ \A t \in Times :
                getMartingaleRelevantPoints(getHistory(p), t) # <<None, None>>
    /\ (last.op \in {"getPossibleValueDistr", "getValue", "getValues"}
          /\ last.res.kind = "error")
          => last.res.err # "Brownian History Corruption Error"

C10_Witness ==
    /\ last.op = "getValue"
    /\ last.res.kind = "val"
    /\ Cardinality(DOMAIN getHistory(last.proc)) >= 3

\* C4: at an observed time t with value v the distribution is the point
\* mass (mean v, standard deviation 0) and getValue(t) returns v and leaves
\* the history as it is; under getValue / getValues calls an observation is
\* never changed, and a stored sample is the observation at its time: once
\* getValue(t) has returned v, every later getValue(t) returns v.
C4_PointMassIdempotent ==
    [][/\ \A p \in ProcIds : \A t \in DOMAIN getHistory(p) :
             LET v == getHistory(p)[t]
                 after == hist'[procs[p].history]
             IN  /\ t \in DOMAIN after /\ after[t] = v
                 /\ (last'.op = "getPossibleValueDistr" /\ last'.proc = p /\ last'.t = t)
                       => /\ last'.res.kind = "distr"
                          /\ last'.res.mean = v
                          /\ last'.res.sd = [sgn |-> 0, sq |-> <<0, 1>>]
                 /\ (last'.op = "getValue" /\ last'.proc = p /\ last'.t = t)
                       => /\ last'.res = [kind |-> "val", val |-> v]
                          /\ hist' = hist
                 /\ (batch # None /\ batch.proc = p
                        /\ batch.tList[batch.order[batch.k]] = t)
                       => /\ hist' = hist
                          /\ IF batch' # None
                             THEN batch'.retVals[batch.order[batch.k]] = v
                             ELSE last'.res = [kind |-> "list", retVals |->
                                     [batch.retVals EXCEPT ![batch.order[batch.k]] = v]]
       /\ (last'.op = "getValue" /\ last'.store /\ last'.res.kind = "val")
             => /\ last'.t \in DOMAIN hist'[procs'[last'.proc].history]
                /\ hist'[procs'[last'.proc].history][last'.t] = last'.res.val
      ]_vars

\* a getValue(t, storeInHistory=False) at a time that is observed, for a
\* process whose other samples are random
C4_Witness ==
    /\ last.op = "getValue"
    /\ ~last.store
    /\ procs[last.proc].sigma > 0
    /\ last.t \in DOMAIN getHistory(last.proc)
    /\ last.res.kind = "val"
    /\ Cardinality(DOMAIN getHistory(last.proc)) >= 2

\* C5: getValues processes the times in ascending order whatever the input
\* order: when an entry is processed, every entry with a smaller time has
\* been sampled and is in the history; the result has the length of the
\* input, result[k] is the sample for times[k], and the history holds
\* (times[k], result[k]) for every k.
C5_AscendingBatch ==
    /\ batch # None =>
          LET h == getHistory(batch.proc)
              done == {i \in DOMAIN batch.tList : batch.retVals[i] # None}
              todo == DOMAIN batch.tList \ done
          IN  /\ \A i \in done, j \in todo : batch.tList[i] <= batch.tList[j]
              /\ \A i \in done :
                    /\ batch.tList[i] \in DOMAIN h
                    /\ h[batch.tList[i]] = batch.retVals[i]
    /\ (last.op = "getValues" /\ last.res.kind = "list") =>
          LET h == getHistory(last.proc)
          IN  /\ Len(last.res.retVals) = Len(last.tList)
              /\ \A k \in DOMAIN last.tList :
                    /\ last.res.retVals[k] # None
                    /\ last.tList[k] \in DOMAIN h
                    /\ h[last.tList[k]] = last.res.retVals[k]

C5_Witness ==
    /\ last.op = "getValues"
    /\ last.res.kind = "list"
    /\ Len(last.tList) = 2
    /\ last.tList[1] > last.tList[2]
    /\ procs[last.proc].sigma > 0
    /\ last.res.retVals[1] # last.res.retVals[2]

\* C6: the linear interpolator returns None exactly when nothing was
\* inserted, the stored value at a stored key, the value of the only
\* neighbour outside the stored range, and between two neighbours
\* (|x-rightX|*leftVal + |x-leftX|*rightVal) / (|x-rightX| + |x-leftX|).
C6_LinearInterpolation ==
    last.op = "linear.getInterpolatedVal" =>
        LET x == last.x
            keys == DOMAIN lin
            lower == {k \in keys : k < x}
            upper == {k \in keys : k > x}
        IN  /\ (last.res = None) <=> (keys = {})
            /\ x \in keys => last.res = <<lin[x], 1>>
            /\ (x \notin keys /\ lower = {} /\ upper # {})
                  => last.res = <<lin[SetMin(upper)], 1>>
            /\ (x \notin keys /\ upper = {} /\ lower # {})
                  => last.res = <<lin[SetMax(lower)], 1>>
            /\ (x \notin keys /\ lower # {} /\ upper # {}) =>
                  LET leftX == SetMax(lower)
                      rightX == SetMin(upper)
                  IN  /\ last.res # None
                      /\ last.res[2] > 0
                      /\ last.res[1] * (Abs(x - rightX) + Abs(x - leftX))
                            = last.res[2] * (Abs(x - rightX) * lin[leftX]
                                             + Abs(x - leftX) * lin[rightX])

C6_Witness ==
    /\ last.op = "linear.getInterpolatedVal"
    /\ last.x \notin DOMAIN lin
    /\ \E a \in DOMAIN lin, b \in DOMAIN lin :
          /\ a < last.x /\ last.x < b
          /\ last.x - a # b - last.x
          /\ lin[a] # lin[b]
    /\ last.res # None
    /\ last.res[2] # 1

\* C7: the nearest-neighbour interpolator returns None exactly when nothing
\* was inserted, the stored value at a stored key, the only neighbour's value
\* when there is one neighbour, and between two neighbours the left value
\* exactly when |x-leftX| < |x-rightX| and the right value otherwise (a tie
\* goes to the right).
C7_NearestNeighbor ==
    last.op = "nearest.getInterpolatedVal" =>
        LET x == last.x
            keys == DOMAIN nn
            lower == {k \in keys : k < x}
            upper == {k \in keys : k > x}
        IN  /\ (last.res = None) <=> (keys = {})
            /\ x \in keys => last.res = <<nn[x], 1>>
            /\ (x \notin keys /\ lower = {} /\ upper # {})
                  => last.res = <<nn[SetMin(upper)], 1>>
            /\ (x \notin keys /\ upper = {} /\ lower # {})
                  => last.res = <<nn[SetMax(lower)], 1>>
            /\ (x \notin keys /\ lower # {} /\ upper # {}) =>
                  LET leftX == SetMax(lower)
                      rightX == SetMin(upper)
                  IN  IF Abs(x - leftX) < Abs(x - rightX)
                      THEN last.res = <<nn[leftX], 1>>
                      ELSE last.res = <<nn[rightX], 1>>

\* a tie between two neighbours with different values
C7_Witness ==
    /\ last.op = "nearest.getInterpolatedVal"
    /\ last.x \notin DOMAIN nn
    /\ \E a \in DOMAIN nn, b \in DOMAIN nn :
          /\ a < last.x /\ last.x < b
          /\ last.x - a = b - last.x
          /\ \A k \in DOMAIN nn : k <= a \/ k >= b
          /\ nn[a] # nn[b]
          /\ last.res = <<nn[b], 1>>
====
